---- MODULE Spec2Model ----
(***************************************************************************)
(* A model of unintended_ml_bias/model_bias_analysis.py.                   *)
(*                                                                         *)
(* Scores and thresholds are exact rationals.  A score is an integer       *)
(* number of 1/ScoreDen units; a threshold is a record [num, den].  A data *)
(* frame is a sequence of rows, a row is a record                          *)
(*   [label : BOOLEAN, score : [model name -> Int],                        *)
(*    sub : [subgroup column -> BOOLEAN]].                                 *)
(* Strings that the program takes apart (model names, column names) are    *)
(* sequences of one-character strings.                                     *)
(*                                                                         *)
(* Seven groups of entry points are modelled, each with its own            *)
(* specification:                                                          *)
(*   SpecEER     compute_equal_error_rate (the threshold scan)             *)
(*   SpecName    model_family_name                                         *)
(*   SpecFamily  merge_family and compute_bias_metrics_for_model_families  *)
(*   SpecDiff    diff_per_subgroup_from_overall                            *)
(*   SpecRates   per_subgroup_negative_rates / compute_confusion_rates     *)
(*   SpecGap     normalized_mwu, compute_negative_aeg, compute_positive_aeg*)
(*   SpecRoc     positive_rates, compute_average_squared_equality_gap      *)
(* The variables of the entry points that do not run keep their idle       *)
(* values.                                                                 *)
(***************************************************************************)
EXTENDS Integers, Sequences, FiniteSets, TLC

VARIABLES
  pc,                    \* position of the running entry point
  df,                    \* the scored data frame (sequence of rows)
  num_thresholds,        \* compute_equal_error_rate: argument
  idx,                   \* compute_equal_error_rate: index of the next threshold
  confusion_matrix,      \* compute_equal_error_rate: matrix of the last iteration
  min_threshold,         \* compute_equal_error_rate: local
  min_confusion_matrix,  \* compute_equal_error_rate: local
  min_diff,              \* compute_equal_error_rate: local
  scanned,               \* indexes of the thresholds the loop has evaluated
  model_names,           \* model_family_name: argument
  name_result,           \* model_family_name: what the call did
  model_families,        \* argument: list of model families (lists of names)
  include_asegs,         \* compute_bias_metrics_for_model_families: argument
  fam_idx,               \* index of the model family being processed
  metric_idx,            \* merge_family: index of the metric being merged
  family_table,          \* model_family_results, then merge_family's output
  output,                \* compute_bias_metrics_for_model_families: output
  error,                 \* the exception that ended the call ("" when none)
  overall_metrics,       \* diff_per_subgroup_from_overall: argument
  per_subgroup_metrics,  \* diff_per_subgroup_from_overall: argument (a table)
  squared_error,         \* diff_per_subgroup_from_overall: argument
  row_idx,               \* diff_per_subgroup_from_overall: index of the subgroup row
  diffs,                 \* diff_per_subgroup_from_overall: local
  returned,              \* squared_error -> the dict the call returned
  subgroups,             \* per_subgroup_negative_rates: argument
  threshold_param,       \* per_subgroup_negative_rates: argument `threshold`
  sub_idx,               \* per_subgroup_negative_rates: index of the subgroup
  model_idx,             \* per_subgroup_negative_rates: index of the model
  records,               \* per_subgroup_negative_rates: local
  subgroup_record,       \* per_subgroup_negative_rates: local
  family_rates,          \* per_subgroup_negative_rates: local
  model_rates,           \* what the last call of compute_confusion_rates did
  data1,                 \* normalized_mwu: argument
  data2,                 \* normalized_mwu: argument
  mwu_forward,           \* what normalized_mwu(data1, data2, model) did
  mwu_backward,          \* what normalized_mwu(data2, data1, model) did
  negative_aeg,          \* what compute_negative_aeg did
  positive_aeg,          \* what compute_positive_aeg did
  roc_thresholds,        \* positive_rates: argument `thresholds`
  roc_rates,             \* what positive_rates did
  aseg                   \* what compute_average_squared_equality_gap did

eerVars == <<df, num_thresholds, idx, confusion_matrix, min_threshold,
             min_confusion_matrix, min_diff, scanned>>

nameVars == <<model_names, name_result>>

famVars == <<model_families, include_asegs, fam_idx, metric_idx, family_table, output,
             error>>

diffVars == <<overall_metrics, per_subgroup_metrics, squared_error, row_idx, diffs,
              returned>>

rateVars == <<subgroups, threshold_param, sub_idx, model_idx, records, subgroup_record,
              family_rates, model_rates>>

gapVars == <<data1, data2, mwu_forward, mwu_backward, negative_aeg, positive_aeg>>

rocVars == <<roc_thresholds, roc_rates, aseg>>

metricVars == <<gapVars, rocVars>>

vars == <<pc, eerVars, nameVars, famVars, diffVars, rateVars, metricVars>>

(***************************************************************************)
(* Bounds and constants                                                    *)
(***************************************************************************)
\* scores are integers counting 1/ScoreDen
ScoreDen == 100
\* largest data frame drawn in the threshold-scan specification
MaxRows == 3
\* largest num_thresholds drawn besides the default
MaxNumThresholds == 5
\* default of num_thresholds
DefaultNumThresholds == 101

\* Python's None is the empty tuple and a present value x the tuple <<x>>
None == <<>>
Some(x) == <<x>>
\* float('inf') : a float that is no finite number; Fin(d) is the finite d
Inf == [fin |-> FALSE, val |-> 0]
\* a mutation of Fin: the stored difference is 0 whatever was computed
FinZero(d) == [fin |-> TRUE, val |-> 0]
Fin(d) == [fin |-> TRUE, val |-> d]

\* the only model column of the threshold-scan specification
EerModel == <<"m">>

\* scores drawn for the rows: 0.0, 0.4, 0.5, 1.0 and one on each side of the
\* conventional [0,1] range, which the program does not enforce
EerScores == {-10, 0, 40, 50, 100, 120}

Abs(x) == IF x < 0 THEN -x ELSE x

SeqsUpTo(S, n) == UNION {[1..k -> S] : k \in 0..n}

(***************************************************************************)
(* Confusion Engine                                                        *)
(***************************************************************************)
\* df[score_col] >= threshold, on a row
ScoreGE(row, score_col, threshold) ==
  row.score[score_col] * threshold.den >= threshold.num * ScoreDen

\* df[score_col] < threshold, on a row
ScoreLT(row, score_col, threshold) ==
  row.score[score_col] * threshold.den < threshold.num * ScoreDen

\* df[score_col] > threshold, on a row (used by no code path: mutations only)
ScoreGT(row, score_col, threshold) ==
  row.score[score_col] * threshold.den > threshold.num * ScoreDen

\* a mutation of confusion_matrix_counts: 'tn' compares with <= instead of <
confusion_matrix_counts_le(frame, score_col, threshold) ==
  [tp |-> Len(SelectSeq(frame, LAMBDA r : ScoreGE(r, score_col, threshold) /\ r.label)),
   tn |-> Len(SelectSeq(frame, LAMBDA r : ~ScoreGT(r, score_col, threshold) /\ ~r.label)),
   fp |-> Len(SelectSeq(frame, LAMBDA r : ScoreGE(r, score_col, threshold) /\ ~r.label)),
   fn |-> Len(SelectSeq(frame, LAMBDA r : ScoreLT(r, score_col, threshold) /\ r.label))]

confusion_matrix_counts(frame, score_col, threshold) ==
  [tp |-> Len(SelectSeq(frame, LAMBDA r : ScoreGE(r, score_col, threshold) /\ r.label)),
   tn |-> Len(SelectSeq(frame, LAMBDA r : ScoreLT(r, score_col, threshold) /\ ~r.label)),
   fp |-> Len(SelectSeq(frame, LAMBDA r : ScoreGE(r, score_col, threshold) /\ ~r.label)),
   fn |-> Len(SelectSeq(frame, LAMBDA r : ScoreLT(r, score_col, threshold) /\ r.label))]

(***************************************************************************)
(* Equal-Error-Rate Solver                                                 *)
(***************************************************************************)
\* np.linspace(0, 1, n)[i - 1] for i in 1..n : (i-1)/(n-1), and [0.0] when n = 1
Linspace(n, i) ==
  IF n = 1 THEN [num |-> 0, den |-> 1] ELSE [num |-> i - 1, den |-> n - 1]

\* a mutation of Difference: the abs() is missing
DifferenceSigned(cm) == cm.fn - cm.fp

\* abs(confusion_matrix['fn'] - confusion_matrix['fp'])
Difference(cm) == Abs(cm.fn - cm.fp)

\* a mutation of LeqMinDiff: the comparison is strict
LtMinDiff(difference, m) == ~m.fin \/ difference < m.val

\* difference <= min_diff, with min_diff possibly float('inf')
LeqMinDiff(difference, m) == ~m.fin \/ difference <= m.val

EerRows == [label : BOOLEAN, score : [{EerModel} -> EerScores], sub : {<<>>}]

EerRow(l, s) == [label |-> l, score |-> [m \in {EerModel} |-> s], sub |-> <<>>]

\* scores [0.1, 0.4, 0.6, 0.9] with labels [False, False, True, True]
ExampleDf == <<EerRow(FALSE, 10), EerRow(FALSE, 40), EerRow(TRUE, 60), EerRow(TRUE, 90)>>

\* the variables of model_family_name while another entry point runs
NameIdle == model_names = <<>> /\ name_result = None

\* the variables of the family computations while another entry point runs
FamIdle ==
  /\ model_families = <<>>
  /\ include_asegs = FALSE
  /\ fam_idx = 1
  /\ metric_idx = 1
  /\ family_table = None
  /\ output = None
  /\ error = ""

\* the variables of per_subgroup_negative_rates while another entry point runs
RateIdle ==
  /\ subgroups = <<>>
  /\ threshold_param = <<>>
  /\ sub_idx = 1
  /\ model_idx = 1
  /\ records = <<>>
  /\ subgroup_record = <<>>
  /\ family_rates = <<>>
  /\ model_rates = None

\* the variables of diff_per_subgroup_from_overall while another entry point runs
DiffIdle ==
  /\ overall_metrics = <<>>
  /\ per_subgroup_metrics = <<>>
  /\ squared_error = FALSE
  /\ row_idx = 1
  /\ diffs = <<>>
  /\ returned = <<>>

\* the variables of positive_rates and the squared gap while they do not run
RocIdle == roc_thresholds = <<>> /\ roc_rates = None /\ aseg = None

\* the variables of normalized_mwu and the gaps while they do not run
GapIdle ==
  /\ data1 = <<>>
  /\ data2 = <<>>
  /\ mwu_forward = None
  /\ mwu_backward = None
  /\ negative_aeg = None
  /\ positive_aeg = None

\* the variables of the equality gap metrics while another entry point runs
MetricIdle == GapIdle /\ RocIdle

InitEER ==
  /\ pc = "eer_loop"
  /\ MetricIdle
  /\ NameIdle
  /\ FamIdle
  /\ DiffIdle
  /\ RateIdle
  /\ \/ df = ExampleDf /\ num_thresholds = DefaultNumThresholds
     \/ df \in SeqsUpTo(EerRows, MaxRows) /\ num_thresholds \in 0..MaxNumThresholds
  /\ idx = 1
  /\ confusion_matrix = None
  /\ min_threshold = None
  /\ min_confusion_matrix = None
  /\ min_diff = Inf
  /\ scanned = {}

\* a mutation of EerKeep: min_confusion_matrix is not assigned
EerKeepStaleMatrix ==
  /\ pc = "eer_loop"
  /\ idx <= num_thresholds
  /\ LET threshold == Linspace(num_thresholds, idx)
         cm == confusion_matrix_counts(df, EerModel, threshold)
         difference == Difference(cm)
     IN /\ LeqMinDiff(difference, min_diff)
        /\ confusion_matrix' = Some(cm)
        /\ min_diff' = Fin(difference)
        /\ min_threshold' = Some(threshold)
  /\ scanned' = scanned \cup {idx}
  /\ idx' = idx + 1
  /\ UNCHANGED <<metricVars, pc, df, num_thresholds, min_confusion_matrix, nameVars,
                 famVars, diffVars, rateVars>>

\* one iteration of the for loop that takes the 'if' branch
EerKeep ==
  /\ pc = "eer_loop"
  /\ idx <= num_thresholds
  /\ LET threshold == Linspace(num_thresholds, idx)
         cm == confusion_matrix_counts(df, EerModel, threshold)
         difference == Difference(cm)
     IN /\ LeqMinDiff(difference, min_diff)
        /\ confusion_matrix' = Some(cm)
        /\ min_diff' = Fin(difference)
        /\ min_confusion_matrix' = Some(cm)
        /\ min_threshold' = Some(threshold)
  /\ scanned' = scanned \cup {idx}
  /\ idx' = idx + 1
  /\ UNCHANGED <<metricVars, pc, df, num_thresholds, nameVars, famVars, diffVars, rateVars>>

\* one iteration of the for loop that takes the 'else' branch: break
EerBreak ==
  /\ pc = "eer_loop"
  /\ idx <= num_thresholds
  /\ LET threshold == Linspace(num_thresholds, idx)
         cm == confusion_matrix_counts(df, EerModel, threshold)
         difference == Difference(cm)
     IN /\ ~LeqMinDiff(difference, min_diff)
        /\ confusion_matrix' = Some(cm)
  /\ scanned' = scanned \cup {idx}
  /\ pc' = "eer_return"
  /\ UNCHANGED <<metricVars, df, num_thresholds, idx, min_threshold, min_confusion_matrix, min_diff,
                 nameVars, famVars, diffVars, rateVars>>

\* the thresholds are exhausted
EerExhausted ==
  /\ pc = "eer_loop"
  /\ idx > num_thresholds
  /\ pc' = "eer_return"
  /\ UNCHANGED <<metricVars, eerVars, nameVars, famVars, diffVars, rateVars>>

\* return {'threshold': min_threshold, 'confusion_matrix': min_confusion_matrix}
EerReturn ==
  /\ pc = "eer_return"
  /\ pc' = "eer_done"
  /\ UNCHANGED <<metricVars, eerVars, nameVars, famVars, diffVars, rateVars>>

\* the value compute_equal_error_rate returned
EerResult == [threshold |-> min_threshold, confusion_matrix |-> min_confusion_matrix]

NextEER == EerKeep \/ EerBreak \/ EerExhausted \/ EerReturn

SpecEER == InitEER /\ [][NextEER]_vars

(***************************************************************************)
(* Family names                                                            *)
(***************************************************************************)
\* the characters of the modelled names, in code point order
Alphabet == <<"1", "2", "_", "a", "b", "c", "d", "e", "i", "n", "o", "r", "t", "x", "y">>

\* ord(c)
Ord(c) == CHOOSE i \in DOMAIN Alphabet : Alphabet[i] = c

\* s < t on strings (Python's lexicographic order, which min() and max() use)
RECURSIVE StrLess(_, _)
StrLess(s, t) ==
  IF t = <<>> THEN FALSE
  ELSE IF s = <<>> THEN TRUE
  ELSE IF s[1] # t[1] THEN Ord(s[1]) < Ord(t[1])
  ELSE StrLess(Tail(s), Tail(t))

\* min(m) and max(m) of a non-empty list of strings: the first smallest and the
\* first largest element
RECURSIVE StrMin(_)
StrMin(m) ==
  IF Len(m) = 1 THEN m[1]
  ELSE LET r == StrMin(Tail(m)) IN IF StrLess(r, m[1]) THEN r ELSE m[1]

RECURSIVE StrMax(_)
StrMax(m) ==
  IF Len(m) = 1 THEN m[1]
  ELSE LET r == StrMax(Tail(m)) IN IF StrLess(m[1], r) THEN r ELSE m[1]

\* the loop of os.path.commonprefix: for i, c in enumerate(s1): if c != s2[i]:
\* return s1[:i]; s1 is min(m), so it is not longer than its match in s2
RECURSIVE PrefixScan(_, _, _)
PrefixScan(s1, s2, i) ==
  IF i > Len(s1) THEN s1
  ELSE IF i > Len(s2) \/ s1[i] # s2[i] THEN SubSeq(s1, 1, i - 1)
  ELSE PrefixScan(s1, s2, i + 1)

\* os.path.commonprefix(m)
commonprefix(m) ==
  IF m = <<>> THEN <<>> ELSE PrefixScan(StrMin(m), StrMax(m), 1)

\* str.lstrip('_') and str.rstrip('_')
RECURSIVE LStrip(_)
LStrip(s) == IF s # <<>> /\ s[1] = "_" THEN LStrip(Tail(s)) ELSE s

RECURSIVE RStrip(_)
RStrip(s) ==
  IF s # <<>> /\ s[Len(s)] = "_" THEN RStrip(SubSeq(s, 1, Len(s) - 1)) ELSE s

\* str.strip('_')
Strip(s) == RStrip(LStrip(s))

\* what a call did: it returned a value, or it raised an exception
Returned(v) == [raised |-> FALSE, error |-> "", value |-> v]
Raised(e) == [raised |-> TRUE, error |-> e, value |-> <<>>]

\* a mutation of model_family_name: only the trailing separators are removed
model_family_name_rstrip(names) ==
  LET prefix == commonprefix(names)
  IN IF prefix = <<>> THEN Raised("ValueError") ELSE Returned(RStrip(prefix))

\* model_family_name(model_names)
model_family_name(names) ==
  LET prefix == commonprefix(names)
  IN IF prefix = <<>> THEN Raised("ValueError") ELSE Returned(Strip(prefix))

\* the names drawn for the models
Str_a == <<"a">>
Str_b == <<"b">>
Str_ab == <<"a", "b">>
Str_a_ == <<"a", "_">>
Str_a_1 == <<"a", "_", "1">>
Str_a_2 == <<"a", "_", "2">>
Str__a == <<"_", "a">>
Str__b == <<"_", "b">>
Str_a__1 == <<"a", "_", "_", "1">>
Str_bert_toxicity == <<"b", "e", "r", "t", "_", "t", "o", "x", "i", "c", "i", "t", "y">>
Str_bert_identity == <<"b", "e", "r", "t", "_", "i", "d", "e", "n", "t", "i", "t", "y">>

NameSet == {Str_a, Str_b, Str_ab, Str_a_, Str_a_1, Str_a_2, Str__a, Str__b, Str_a__1,
            Str_bert_toxicity, Str_bert_identity}

\* the longest list of names drawn for model_family_name
MaxNames == 3

EerIdle ==
  /\ df = <<>>
  /\ num_thresholds = 0
  /\ idx = 1
  /\ confusion_matrix = None
  /\ min_threshold = None
  /\ min_confusion_matrix = None
  /\ min_diff = Inf
  /\ scanned = {}

InitName ==
  /\ pc = "name_call"
  /\ MetricIdle
  /\ EerIdle
  /\ FamIdle
  /\ DiffIdle
  /\ RateIdle
  /\ model_names \in SeqsUpTo(NameSet, MaxNames)
  /\ name_result = None

\* the call raises: `if not prefix: raise ValueError(...)`
NameRaise ==
  /\ pc = "name_call"
  /\ model_family_name(model_names).raised
  /\ name_result' = Some(model_family_name(model_names))
  /\ pc' = "name_done"
  /\ UNCHANGED <<metricVars, eerVars, model_names, famVars, diffVars, rateVars>>

\* the call returns prefix.strip('_')
NameReturn ==
  /\ pc = "name_call"
  /\ ~model_family_name(model_names).raised
  /\ name_result' = Some(model_family_name(model_names))
  /\ pc' = "name_done"
  /\ UNCHANGED <<metricVars, eerVars, model_names, famVars, diffVars, rateVars>>

NextName == NameRaise \/ NameReturn

SpecName == InitName /\ [][NextName]_vars

(***************************************************************************)
(* Properties of model_family_name                                         *)
(***************************************************************************)
\* p is a prefix of s
IsPrefix(p, s) == Len(p) <= Len(s) /\ \A i \in 1..Len(p) : p[i] = s[i]

\* the non-empty strings that are a prefix of every one of the names
CommonPrefixes(names) ==
  IF names = <<>> THEN {}
  ELSE {p \in {SubSeq(names[1], 1, k) : k \in 1..Len(names[1])} :
          \A i \in DOMAIN names : IsPrefix(p, names[i])}

\* r is p with its leading and its trailing '_' characters removed
IsStripped(r, p) ==
  \E i \in 1..(Len(p) + 1) : \E j \in 0..Len(p) :
    /\ r = SubSeq(p, i, j)
    /\ \A k \in 1..(i - 1) : p[k] = "_"
    /\ \A k \in (j + 1)..Len(p) : p[k] = "_"
    /\ r # <<>> => (r[1] # "_" /\ r[Len(r)] # "_")

\* C7: model_family_name raises exactly when the names have no non-empty common
\* prefix (the empty list included), and otherwise returns the longest common
\* prefix with its leading and trailing '_' removed.
C7_FamilyName ==
  pc = "name_done" =>
    LET res == name_result[1]
        common == CommonPrefixes(model_names)
    IN /\ res.raised <=> common = {}
       /\ ~res.raised =>
            \E p \in common : /\ \A q \in common : Len(q) <= Len(p)
                               /\ IsStripped(res.value, p)

\* the family of the bert models is named "bert": the '_' after it is removed
C7_Witness ==
  /\ pc = "name_done"
  /\ model_names = <<Str_bert_toxicity, Str_bert_identity>>
  /\ name_result = Some(Returned(<<"b", "e", "r", "t">>))

\* the names "a" and "b" have no common prefix: the call raises
C7_WitnessRaise ==
  /\ pc = "name_done"
  /\ model_names = <<Str_a, Str_b>>
  /\ name_result = Some(Raised("ValueError"))

\* the empty list of names: the call raises
C7_WitnessEmpty ==
  /\ pc = "name_done"
  /\ model_names = <<>>
  /\ name_result = Some(Raised("ValueError"))

(***************************************************************************)
(* Metric tables and model families                                        *)
(*                                                                         *)
(* A table (pandas DataFrame) is a sequence of columns [name, cells]; the  *)
(* cells of a column are listed in row order.  A metric name is a single   *)
(* element of a column name.  The value of a metric of a model on a row is *)
(* kept symbolic: the tuple <<model, metric, row>>.                        *)
(***************************************************************************)
SUBGROUP == <<"subgroup">>
SUBSET_SIZE == <<"subset_size">>

METRICS == <<"subgroup_auc", "bpsn_auc", "bnsp_auc", "negative_aeg", "positive_aeg">>
ASEGS == <<"negative_aseg", "positive_aseg">>

\* the order in which a record gets its squared-gap keys
AsegRecordKeys == <<"positive_aseg", "negative_aseg">>

\* the subgroups of the tables
Subgroups == <<"s1", "s2">>

\* column_name(model, metric)
column_name(model, metric) == model \o <<"_">> \o <<metric>>

ColumnNames(t) == {t[i].name : i \in DOMAIN t}

\* the value of `metric` for `model` on the r-th subgroup
MetricValue(model, metric, r) == <<model, metric, r>>

\* compute_bias_metrics_for_model: one record per subgroup, as a table
compute_bias_metrics_for_model(subgroup_list, model, asegs) ==
  LET keys == METRICS \o (IF asegs THEN AsegRecordKeys ELSE <<>>)
  IN <<[name |-> SUBGROUP, cells |-> subgroup_list],
       [name |-> SUBSET_SIZE, cells |-> [r \in DOMAIN subgroup_list |-> <<"size", r>>]]>>
     \o [k \in DOMAIN keys |->
           [name |-> column_name(model, keys[k]),
            cells |-> [r \in DOMAIN subgroup_list |-> MetricValue(model, keys[k], r)]]]

\* left.merge(right, on=[SUBGROUP, SUBSET_SIZE]) of two tables built over the same
\* subgroup_list: the key columns once, then the other columns of left and of right;
\* a name both sides have gets the suffix _x on the left and _y on the right
MergeOnKeys(left, right) ==
  LET keys == {SUBGROUP, SUBSET_SIZE}
      both == (ColumnNames(left) \cap ColumnNames(right)) \ keys
      Renamed(t, suffix) ==
        [i \in DOMAIN t |->
           IF t[i].name \in both
           THEN [name |-> t[i].name \o suffix, cells |-> t[i].cells]
           ELSE t[i]]
  IN Renamed(left, <<"_", "x">>)
     \o SelectSeq(Renamed(right, <<"_", "y">>), LAMBDA c : c.name \notin keys)

\* compute_bias_metrics_for_models: None for no model, else the tables of the
\* models merged from left to right
RECURSIVE compute_bias_metrics_for_models(_, _, _)
compute_bias_metrics_for_models(subgroup_list, models, asegs) ==
  IF models = <<>> THEN None
  ELSE LET n == Len(models)
           model_results == compute_bias_metrics_for_model(subgroup_list, models[n], asegs)
           before == compute_bias_metrics_for_models(subgroup_list, SubSeq(models, 1, n - 1), asegs)
       IN IF before = None THEN Some(model_results)
          ELSE Some(MergeOnKeys(before[1], model_results))

\* output[name] = cells : the column is replaced, or added at the end
SetColumn(t, name, cells) ==
  IF name \in ColumnNames(t)
  THEN [i \in DOMAIN t |-> IF t[i].name = name THEN [name |-> name, cells |-> cells] ELSE t[i]]
  ELSE Append(t, [name |-> name, cells |-> cells])

\* the cells of the (first) column called name
ColumnCells(t, name) == t[CHOOSE i \in DOMAIN t : t[i].name = name].cells

\* the number of rows of a table
NumRows(t) == IF t = <<>> THEN 0 ELSE Len(t[1].cells)

\* output[names].values.tolist() : per row, the list of the cells of the columns
RowLists(t, names) ==
  [r \in 1..NumRows(t) |-> [k \in DOMAIN names |-> ColumnCells(t, names[k])[r]]]

\* output.drop(names, axis=1)
DropColumns(t, names) ==
  SelectSeq(t, LAMBDA c : c.name \notin {names[k] : k \in DOMAIN names})

\* metrics_list of compute_bias_metrics_for_model_families
MetricsList(asegs) == IF asegs THEN METRICS \o ASEGS ELSE METRICS

\* metric_columns = [column_name(model, metric) for model in models]
MetricColumns(models, metric) == [k \in DOMAIN models |-> column_name(models[k], metric)]

\* the body of merge_family's loop for one metric: the family column is set to the
\* row lists of the per-model columns, then the per-model columns are dropped
MergeMetricBody(t, models, metric) ==
  LET metric_columns == MetricColumns(models, metric)
  IN IF \E k \in DOMAIN metric_columns : metric_columns[k] \notin ColumnNames(t)
     THEN Raised("KeyError")
     ELSE IF model_family_name(models).raised THEN model_family_name(models)
     ELSE Returned(DropColumns(
                     SetColumn(t, column_name(model_family_name(models).value, metric),
                               RowLists(t, metric_columns)),
                     metric_columns))

\* the model families drawn
Family_empty == <<>>
Family_a == <<Str_a>>
Family_a12 == <<Str_a_1, Str_a_2>>
Family_a21 == <<Str_a_2, Str_a_1>>
Family_a_a1 == <<Str_a, Str_a_1>>
Family_b == <<Str__b>>
Family_ab == <<Str_a, Str_b>>
Family_bert == <<Str_bert_toxicity, Str_bert_identity>>

FamilySet == {Family_empty, Family_a, Family_a12, Family_a21, Family_a_a1, Family_b,
              Family_ab, Family_bert}

\* the longest list of model families drawn
MaxFamilies == 2

InitFamily ==
  /\ pc = "fam_loop"
  /\ MetricIdle
  /\ EerIdle
  /\ NameIdle
  /\ DiffIdle
  /\ RateIdle
  /\ model_families \in SeqsUpTo(FamilySet, MaxFamilies)
  /\ include_asegs \in BOOLEAN
  /\ fam_idx = 1
  /\ metric_idx = 1
  /\ family_table = None
  /\ output = None
  /\ error = ""

\* model_family_results = compute_bias_metrics_for_models(...)
FamCompute ==
  /\ pc = "fam_loop"
  /\ fam_idx <= Len(model_families)
  /\ family_table' = compute_bias_metrics_for_models(Subgroups, model_families[fam_idx],
                                                     include_asegs)
  /\ pc' = "merge_copy"
  /\ UNCHANGED <<metricVars, eerVars, nameVars, model_families, include_asegs, fam_idx, metric_idx,
                 output, error, diffVars, rateVars>>

\* merge_family: output = model_family_results.copy()
MergeCopy ==
  /\ pc = "merge_copy"
  /\ family_table # None
  /\ metric_idx' = 1
  /\ pc' = "merge_loop"
  /\ UNCHANGED <<metricVars, eerVars, nameVars, model_families, include_asegs, fam_idx, family_table,
                 output, error, diffVars, rateVars>>

\* merge_family: model_family_results is None, which has no copy()
MergeCopyRaise ==
  /\ pc = "merge_copy"
  /\ family_table = None
  /\ error' = "AttributeError"
  /\ pc' = "fam_raised"
  /\ UNCHANGED <<metricVars, eerVars, nameVars, model_families, include_asegs, fam_idx, metric_idx,
                 family_table, output, diffVars, rateVars>>

\* merge_family: one metric of the loop
MergeMetric ==
  /\ pc = "merge_loop"
  /\ metric_idx <= Len(MetricsList(include_asegs))
  /\ LET res == MergeMetricBody(family_table[1], model_families[fam_idx],
                                MetricsList(include_asegs)[metric_idx])
     IN /\ ~res.raised
        /\ family_table' = Some(res.value)
  /\ metric_idx' = metric_idx + 1
  /\ UNCHANGED <<metricVars, pc, eerVars, nameVars, model_families, include_asegs, fam_idx, output,
                 error, diffVars, rateVars>>

\* merge_family: one metric of the loop raises (a column is missing, or the family
\* has no name)
MergeMetricRaise ==
  /\ pc = "merge_loop"
  /\ metric_idx <= Len(MetricsList(include_asegs))
  /\ LET res == MergeMetricBody(family_table[1], model_families[fam_idx],
                                MetricsList(include_asegs)[metric_idx])
     IN /\ res.raised
        /\ error' = res.error
  /\ pc' = "fam_raised"
  /\ UNCHANGED <<metricVars, eerVars, nameVars, model_families, include_asegs, fam_idx, metric_idx,
                 family_table, output, diffVars, rateVars>>

\* merge_family returns; the result becomes the output or is merged into it
FamJoin ==
  /\ pc = "merge_loop"
  /\ metric_idx > Len(MetricsList(include_asegs))
  /\ output' = IF output = None THEN family_table
               ELSE Some(MergeOnKeys(output[1], family_table[1]))
  /\ fam_idx' = fam_idx + 1
  /\ pc' = "fam_loop"
  /\ UNCHANGED <<metricVars, eerVars, nameVars, model_families, include_asegs, metric_idx,
                 family_table, error, diffVars, rateVars>>

\* compute_bias_metrics_for_model_families: return output
FamReturn ==
  /\ pc = "fam_loop"
  /\ fam_idx > Len(model_families)
  /\ pc' = "fam_done"
  /\ UNCHANGED <<metricVars, eerVars, nameVars, famVars, diffVars, rateVars>>

NextFamily ==
  FamCompute \/ MergeCopy \/ MergeCopyRaise \/ MergeMetric \/ MergeMetricRaise
    \/ FamJoin \/ FamReturn

SpecFamily == InitFamily /\ [][NextFamily]_vars

(***************************************************************************)
(* Properties of the family tables                                         *)
(***************************************************************************)
\* the list of the per-model values of a metric on row r, in the family's order
FamilyValues(models, metric, r) ==
  [k \in DOMAIN models |-> MetricValue(models[k], metric, r)]

\* table t has the family's column for the metric, holding the per-model lists
HasFamilyColumn(t, models, metric) ==
  LET name == column_name(model_family_name(models).value, metric)
  IN \E i \in DOMAIN t :
       /\ t[i].name = name
       /\ t[i].cells = [r \in DOMAIN Subgroups |-> FamilyValues(models, metric, r)]

\* C4: for a family with a non-empty common prefix and every metric of the metrics
\* list, the table merge_family returns has the column <familyName>_<metric>
\* holding, per subgroup, the list of the per-model values in the family's order.
C4_FamilyColumns ==
  (pc = "merge_loop" /\ metric_idx > Len(MetricsList(include_asegs))) =>
    \A k \in 1..Len(MetricsList(include_asegs)) :
      HasFamilyColumn(family_table[1], model_families[fam_idx],
                      MetricsList(include_asegs)[k])

\* C4 for the table compute_bias_metrics_for_model_families returns for a single
\* family
C4_FamilyColumnsOfOutput ==
  (pc = "fam_done" /\ Len(model_families) = 1 /\ output # None) =>
    \A k \in 1..Len(MetricsList(include_asegs)) :
      HasFamilyColumn(output[1], model_families[1], MetricsList(include_asegs)[k])

\* what does hold of merge_family: the columns are there when no model is named
\* like the family
C4_FamilyColumnsUnlessNamesake ==
  (/\ pc = "merge_loop"
   /\ metric_idx > Len(MetricsList(include_asegs))
   /\ \A k \in DOMAIN model_families[fam_idx] :
        model_families[fam_idx][k] # model_family_name(model_families[fam_idx]).value) =>
    \A k \in 1..Len(MetricsList(include_asegs)) :
      HasFamilyColumn(family_table[1], model_families[fam_idx],
                      MetricsList(include_asegs)[k])

\* merge_family has returned for a family of two models
C4_WitnessTwoModels ==
  /\ pc = "merge_loop"
  /\ metric_idx > Len(MetricsList(include_asegs))
  /\ model_families[fam_idx] = Family_a12
  /\ HasFamilyColumn(family_table[1], Family_a12, "subgroup_auc")

(***************************************************************************)
(* Aggregation: diff_per_subgroup_from_overall                             *)
(*                                                                         *)
(* A metric value is an integer number of 1/ValueScale units.  An error    *)
(* and a sum of errors is an integer number of 1/ValueScale^2 units, so    *)
(* that the squared and the absolute difference are both exact.            *)
(***************************************************************************)
\* metric values are integers counting 1/ValueScale
ValueScale == 2
\* the most subgroup rows drawn for the per-subgroup table
MaxDiffRows == 2

\* the overall values drawn (0.0 and 0.5) and the per-subgroup values drawn
\* (0.0, 0.5 and 1.5)
OverallValues == {0, 1}
CellValues == {0, 1, 3}

\* metric_column: the suffix of the family's column
MetricColumnSuffix == <<"_aucs">>

Family_c == <<<<"c", "_">>>>

\* the lists of model families drawn: none, a family of two models, two families
\* of one model each, the same family twice, and a family without a name
DiffFamilyLists == {<<>>, <<Family_a12>>, <<Family_b, Family_c>>, <<Family_b, Family_b>>,
                    <<Family_c, Family_ab>>}

\* the names of the families of a list that have one
DiffFamilyNames(fams) ==
  {model_family_name(fams[k]).value :
     k \in {j \in DOMAIN fams : ~model_family_name(fams[j]).raised}}

\* the number of models of the family of the list that is called name
DiffFamilySize(fams, name) ==
  Len(fams[CHOOSE k \in DOMAIN fams : model_family_name(fams[k]) = Returned(name)])

\* the per-subgroup tables of n rows: a column <family><suffix> per family, each
\* cell a list of one value per model of the family
DiffTables(fams, n) ==
  LET names == DiffFamilyNames(fams)
      namelist == CHOOSE q \in [1..Cardinality(names) -> names] :
                    \A i, j \in DOMAIN q : i # j => q[i] # q[j]
      Cells(name) == [1..n -> [1..DiffFamilySize(fams, name) -> CellValues]]
      Choices == [names -> UNION {Cells(name) : name \in names}]
  IN {<<[name |-> SUBGROUP, cells |-> [r \in 1..n |-> <<"s", r>>]]>>
        \o [k \in DOMAIN namelist |->
              [name |-> namelist[k] \o MetricColumnSuffix, cells |-> c[namelist[k]]]] :
      c \in {f \in Choices : \A name \in names : f[name] \in Cells(name)}}

\* the overall values: per family name a list of one value per model
DiffOveralls(fams) ==
  LET names == DiffFamilyNames(fams)
      Lists(name) == [1..DiffFamilySize(fams, name) -> OverallValues]
  IN {f \in [names -> UNION {Lists(name) : name \in names}] :
        \A name \in names : f[name] \in Lists(name)}

\* a mutation of calculate_error: diff*2 for diff**2
calculate_error_times2(overall_score, per_group_score, squared) ==
  LET diff == overall_score - per_group_score
  IN IF squared THEN diff * 2 * ValueScale ELSE Abs(diff) * ValueScale

\* calculate_error(overall_score, per_group_score), in 1/ValueScale^2 units
calculate_error(overall_score, per_group_score, squared) ==
  LET diff == overall_score - per_group_score
  IN IF squared THEN diff * diff ELSE Abs(diff) * ValueScale

\* a mutation of Zip: the second list is paired from its end
ZipReversed(a, b) ==
  [i \in 1..(IF Len(a) < Len(b) THEN Len(a) ELSE Len(b)) |-> <<a[i], b[Len(b) + 1 - i]>>]

\* zip(a, b): the pairs up to the end of the shorter list
Zip(a, b) ==
  [i \in 1..(IF Len(a) < Len(b) THEN Len(a) ELSE Len(b)) |-> <<a[i], b[i]>>]

\* sum(list)
RECURSIVE Sum(_)
Sum(list) == IF list = <<>> THEN 0 ELSE list[1] + Sum(Tail(list))

\* sum(per_subgroup_metric_diffs) for one subgroup row
RowDiffs(family_overall_metrics, one_subgroup_metric_list, squared) ==
  LET pairs == Zip(family_overall_metrics, one_subgroup_metric_list)
  IN Sum([i \in DOMAIN pairs |-> calculate_error(pairs[i][1], pairs[i][2], squared)])

InitDiff ==
  /\ pc = "diff_loop"
  /\ MetricIdle
  /\ EerIdle
  /\ NameIdle
  /\ RateIdle
  /\ model_families \in DiffFamilyLists
  /\ include_asegs = FALSE
  /\ fam_idx = 1
  /\ metric_idx = 1
  /\ family_table = None
  /\ output = None
  /\ error = ""
  /\ overall_metrics \in DiffOveralls(model_families)
  /\ \E n \in 0..MaxDiffRows : per_subgroup_metrics \in DiffTables(model_families, n)
  /\ squared_error \in BOOLEAN
  /\ row_idx = 1
  /\ diffs = <<>>
  /\ returned = <<>>

\* the head of the loop over the families: the name, and diffs[family_name] = 0.0
DiffFamily ==
  /\ pc = "diff_loop"
  /\ fam_idx <= Len(model_families)
  /\ LET res == model_family_name(model_families[fam_idx])
     IN /\ ~res.raised
        /\ res.value \in DOMAIN overall_metrics
        /\ diffs' = [n \in DOMAIN diffs \cup {res.value} |->
                       IF n = res.value THEN 0 ELSE diffs[n]]
  /\ row_idx' = 1
  /\ pc' = "diff_rows"
  /\ UNCHANGED <<metricVars, eerVars, nameVars, famVars, overall_metrics, per_subgroup_metrics,
                 squared_error, returned, rateVars>>

\* model_family_name raises for the family
DiffFamilyRaise ==
  /\ pc = "diff_loop"
  /\ fam_idx <= Len(model_families)
  /\ model_family_name(model_families[fam_idx]).raised
  /\ error' = model_family_name(model_families[fam_idx]).error
  /\ pc' = "diff_raised"
  /\ UNCHANGED <<metricVars, eerVars, nameVars, model_families, include_asegs, fam_idx, metric_idx,
                 family_table, output, diffVars, rateVars>>

\* one subgroup row: the errors of the zipped pairs are summed into the family's
\* total
DiffRow ==
  /\ pc = "diff_rows"
  /\ LET family_name == model_family_name(model_families[fam_idx]).value
         column == ColumnCells(per_subgroup_metrics, family_name \o MetricColumnSuffix)
     IN /\ row_idx <= Len(column)
        /\ diffs' = [diffs EXCEPT ![family_name] =
                       @ + RowDiffs(overall_metrics[family_name], column[row_idx],
                                    squared_error)]
  /\ row_idx' = row_idx + 1
  /\ UNCHANGED <<metricVars, pc, eerVars, nameVars, famVars, overall_metrics, per_subgroup_metrics,
                 squared_error, returned, rateVars>>

\* the rows of the family are exhausted: on to the next family
DiffFamilyDone ==
  /\ pc = "diff_rows"
  /\ LET family_name == model_family_name(model_families[fam_idx]).value
         column == ColumnCells(per_subgroup_metrics, family_name \o MetricColumnSuffix)
     IN row_idx > Len(column)
  /\ fam_idx' = fam_idx + 1
  /\ pc' = "diff_loop"
  /\ UNCHANGED <<metricVars, eerVars, nameVars, model_families, include_asegs, metric_idx,
                 family_table, output, error, diffVars, rateVars>>

\* return diffs
DiffReturn ==
  /\ pc = "diff_loop"
  /\ fam_idx > Len(model_families)
  /\ returned' = [b \in DOMAIN returned \cup {squared_error} |->
                    IF b = squared_error THEN diffs ELSE returned[b]]
  /\ pc' = "diff_done"
  /\ UNCHANGED <<metricVars, eerVars, nameVars, famVars, overall_metrics, per_subgroup_metrics,
                 squared_error, row_idx, diffs, rateVars>>

\* the caller calls again on the same arguments with the other squared_error
DiffCallAgain ==
  /\ pc = "diff_done"
  /\ (~squared_error) \notin DOMAIN returned
  /\ squared_error' = ~squared_error
  /\ fam_idx' = 1
  /\ row_idx' = 1
  /\ diffs' = <<>>
  /\ pc' = "diff_loop"
  /\ UNCHANGED <<metricVars, eerVars, nameVars, model_families, include_asegs, metric_idx,
                 family_table, output, error, overall_metrics, per_subgroup_metrics,
                 returned, rateVars>>

NextDiff ==
  DiffFamily \/ DiffFamilyRaise \/ DiffRow \/ DiffFamilyDone \/ DiffReturn
    \/ DiffCallAgain

SpecDiff == InitDiff /\ [][NextDiff]_vars

(***************************************************************************)
(* Properties of diff_per_subgroup_from_overall                            *)
(***************************************************************************)
\* the cells of the family's column of the per-subgroup table
FamilyColumn(name) == ColumnCells(per_subgroup_metrics, name \o MetricColumnSuffix)

\* the error of one pair, computed on its own, in 1/ValueScale^2 units
PairError(o, p, squared) ==
  IF squared THEN (o - p) * (o - p)
  ELSE (IF o >= p THEN o - p ELSE p - o) * ValueScale

\* the sum of f over a finite set of pairs <<row, position>>
RECURSIVE SumOver(_, _, _, _)
SumOver(S, overall, column, squared) ==
  IF S = {} THEN 0
  ELSE LET x == CHOOSE y \in S : TRUE
       IN PairError(overall[x[2]], column[x[1]][x[2]], squared)
          + SumOver(S \ {x}, overall, column, squared)

\* the sum over all subgroup rows and all model positions of the family
ExpectedDiff(fams, name, squared) ==
  SumOver((DOMAIN FamilyColumn(name)) \X (1..DiffFamilySize(fams, name)),
          overall_metrics[name], FamilyColumn(name), squared)

\* C5: for each family the returned value is the sum, over all subgroup rows and
\* all model positions i of the family, of the squared (squared_error) or absolute
\* difference of overall[i] and perSubgroup[row][i]; it is 0.0 without rows.
C5_SumOfDifferences ==
  pc = "diff_done" =>
    /\ DOMAIN returned[squared_error] = DiffFamilyNames(model_families)
    /\ \A name \in DOMAIN returned[squared_error] :
         /\ returned[squared_error][name]
              = ExpectedDiff(model_families, name, squared_error)
         /\ FamilyColumn(name) = <<>> => returned[squared_error][name] = 0

\* a call returned for a family of two models over two subgroup rows, with a
\* non-zero sum
C5_Witness ==
  /\ pc = "diff_done"
  /\ model_families = <<Family_a12>>
  /\ Len(FamilyColumn(Str_a)) = 2
  /\ overall_metrics[Str_a][1] # overall_metrics[Str_a][2]
  /\ FamilyColumn(Str_a)[1][1] # FamilyColumn(Str_a)[1][2]
  /\ returned[squared_error][Str_a] > 0

\* every paired difference of every family has magnitude <= 1
AllDifferencesSmall ==
  \A name \in DiffFamilyNames(model_families) :
    \A r \in DOMAIN FamilyColumn(name) :
      \A i \in 1..DiffFamilySize(model_families, name) :
        /\ overall_metrics[name][i] - FamilyColumn(name)[r][i] <= ValueScale
        /\ FamilyColumn(name)[r][i] - overall_metrics[name][i] <= ValueScale

\* both calls, with squared_error True and False, have returned
BothReturned == pc = "diff_done" /\ DOMAIN returned = BOOLEAN

\* C6 as stated: when every paired difference has magnitude <= 1, the value
\* returned with squared_error=True is >= the value returned with
\* squared_error=False, for every family.
C6_SquaredAtLeastAbsolute ==
  (BothReturned /\ AllDifferencesSmall) =>
    \A name \in DOMAIN returned[TRUE] : returned[TRUE][name] >= returned[FALSE][name]

\* C6 amended: when every paired difference has magnitude <= 1, the value returned
\* with squared_error=True is <= the value returned with squared_error=False.
C6_SquaredAtMostAbsolute ==
  (BothReturned /\ AllDifferencesSmall) =>
    \A name \in DOMAIN returned[TRUE] : returned[TRUE][name] <= returned[FALSE][name]

\* both calls returned, every difference is at most 1 and the squared sum is
\* strictly below the absolute sum
C6_Witness ==
  /\ BothReturned
  /\ AllDifferencesSmall
  /\ \E name \in DOMAIN returned[TRUE] : returned[TRUE][name] < returned[FALSE][name]

\* a difference above 1 makes the squared sum exceed the absolute sum
C6_WitnessLarge ==
  /\ BothReturned
  /\ \E name \in DOMAIN returned[TRUE] : returned[TRUE][name] > returned[FALSE][name]

(***************************************************************************)
(* Negative rates: compute_confusion_rates and per_subgroup_negative_rates *)
(*                                                                         *)
(* A threshold argument value carries its Python type:                     *)
(* [type, num, den].  The threshold parameter is a scalar or a dict        *)
(* from model name to such values.  A rate is the exact rational           *)
(* [num, den].  The median, mean and standard deviation that a record      *)
(* holds besides the lists of values are functions of those lists and are  *)
(* left out of the record.                                                 *)
(***************************************************************************)
\* the most rows drawn for the data frame of the negative rates
MaxRateRows == 2

\* the subgroup column of the data frame
RateSubgroup == "s1"

\* a, b : Python ints; a / b under `from __future__ import division`
Divide(a, b) ==
  IF b = 0 THEN Raised("ZeroDivisionError") ELSE Returned([num |-> a, den |-> b])

\* 1 - rate
OneMinus(rate) == [num |-> rate.den - rate.num, den |-> rate.den]

\* compute_confusion_rates(df, score_col, label_col, threshold)
compute_confusion_rates(frame, score_col, threshold) ==
  LET confusion == confusion_matrix_counts(frame, score_col, threshold)
      actual_positives == confusion.tp + confusion.fn
      actual_negatives == confusion.tn + confusion.fp
      tpr == Divide(confusion.tp, actual_positives)
      tnr == Divide(confusion.tn, actual_negatives)
      precision == Divide(confusion.tp, confusion.tp + confusion.fp)
  IN IF tpr.raised THEN tpr
     ELSE IF tnr.raised THEN tnr
     ELSE IF precision.raised THEN precision
     ELSE Returned([tpr |-> tpr.value, tnr |-> tnr.value, fpr |-> OneMinus(tnr.value),
                    fnr |-> OneMinus(tpr.value), precision |-> precision.value,
                    recall |-> tpr.value])

\* threshold values: the floats 0.5 and 1.0, the ints 0 and 1
PyFloat(n, d) == [type |-> "float", num |-> n, den |-> d]
PyInt(n) == [type |-> "int", num |-> n, den |-> 1]

\* the threshold parameter: a scalar, or a dict from model name to value
Scalar(v) == [is_dict |-> FALSE, scalar |-> v, map |-> <<>>]
Dict(f) == [is_dict |-> TRUE, scalar |-> PyInt(0), map |-> f]

\* isinstance(model_threshold, float)
IsFloat(v) == v.type = "float"

\* a mutation of CheckedThreshold: the assert is missing
UncheckedThreshold(thr, model_name) ==
  IF thr.is_dict /\ model_name \notin DOMAIN thr.map THEN Raised("KeyError")
  ELSE Returned(IF thr.is_dict THEN thr.map[model_name] ELSE thr.scalar)

\* model_threshold = threshold[model_name] if isinstance(threshold, dict) else
\* threshold; assert isinstance(model_threshold, float)
CheckedThreshold(thr, model_name) ==
  IF thr.is_dict /\ model_name \notin DOMAIN thr.map THEN Raised("KeyError")
  ELSE LET model_threshold == IF thr.is_dict THEN thr.map[model_name] ELSE thr.scalar
       IN IF IsFloat(model_threshold) THEN Returned(model_threshold)
          ELSE Raised("AssertionError")

\* subgroup_subset: df when the subgroup is None, else df[df[subgroup]]
SubgroupSubset(frame, subgroup) ==
  IF subgroup = None THEN frame
  ELSE SelectSeq(frame, LAMBDA r : r.sub[subgroup[1]])

\* the body of the loop over the models of a family, for one model: the rates of
\* the model on the subset, or the exception raised
ModelRates(subset, thr, model_name) ==
  LET model_threshold == CheckedThreshold(thr, model_name)
  IN IF model_threshold.raised THEN model_threshold
     ELSE compute_confusion_rates(subset, model_name, model_threshold.value)

\* subgroup_record.update({family_name + '_tnr_values': tnrs, ...})
UpdateRecord(record, family_name, rates) ==
  LET tnr_key == family_name \o <<"_tnr_values">>
      fnr_key == family_name \o <<"_fnr_values">>
      tnrs == [i \in DOMAIN rates |-> rates[i].tnr]
      fnrs == [i \in DOMAIN rates |-> rates[i].fnr]
  IN [k \in DOMAIN record \cup {tnr_key, fnr_key} |->
        IF k = tnr_key THEN tnrs ELSE IF k = fnr_key THEN fnrs ELSE record[k]]

\* the rows of the data frame: a label, a score per model, the subgroup flag
RateRows ==
  [label : BOOLEAN,
   score : {[m \in {Str_a_1, Str_a_2} |-> IF m = Str_a_1 THEN s ELSE 50] : s \in {20, 100}},
   sub : [{RateSubgroup} -> BOOLEAN]]

\* the lists of subgroups drawn: none, the subgroup, the whole data set (None)
RateSubgroupLists == {<<>>, <<Some(RateSubgroup)>>, <<None>>, <<Some(RateSubgroup), None>>}

Family_a1 == <<Str_a_1>>
Family_a2 == <<Str_a_2>>

\* the lists of model families drawn
RateFamilyLists == {<<>>, <<Family_a1>>, <<Family_a12>>, <<Family_a1, Family_a2>>,
                    <<Family_empty>>}

\* the threshold parameters drawn: the floats 0.5 and 1.0, the int 1, a dict of
\* floats, a dict without an entry for a_2, and a dict that maps a_2 to an int
RateThresholds ==
  {Scalar(PyFloat(1, 2)), Scalar(PyFloat(1, 1)), Scalar(PyInt(1)),
   Dict([m \in {Str_a_1, Str_a_2} |-> PyFloat(1, 2)]),
   Dict([m \in {Str_a_1} |-> PyFloat(1, 2)]),
   Dict([m \in {Str_a_1, Str_a_2} |-> IF m = Str_a_1 THEN PyFloat(1, 2) ELSE PyInt(1)])}

InitRates ==
  /\ pc = "rates_loop"
  /\ MetricIdle
  /\ NameIdle
  /\ DiffIdle
  /\ df \in SeqsUpTo(RateRows, MaxRateRows)
  /\ num_thresholds = 0
  /\ idx = 1
  /\ confusion_matrix = None
  /\ min_threshold = None
  /\ min_confusion_matrix = None
  /\ min_diff = Inf
  /\ scanned = {}
  /\ model_families \in RateFamilyLists
  /\ include_asegs = FALSE
  /\ fam_idx = 1
  /\ metric_idx = 1
  /\ family_table = None
  /\ output = None
  /\ error = ""
  /\ subgroups \in RateSubgroupLists
  /\ threshold_param \in RateThresholds
  /\ sub_idx = 1
  /\ model_idx = 1
  /\ records = <<>>
  /\ subgroup_record = <<>>
  /\ family_rates = <<>>
  /\ model_rates = None

\* the head of the loop over the subgroups: the subset and the new record
RatesSubgroup ==
  /\ pc = "rates_loop"
  /\ sub_idx <= Len(subgroups)
  /\ subgroup_record' =
       [k \in {SUBGROUP, SUBSET_SIZE} |->
          IF k = SUBGROUP THEN subgroups[sub_idx]
          ELSE <<Len(SubgroupSubset(df, subgroups[sub_idx]))>>]
  /\ fam_idx' = 1
  /\ pc' = "rates_family"
  /\ UNCHANGED <<metricVars, eerVars, nameVars, diffVars, model_families, include_asegs, metric_idx,
                 family_table, output, error, subgroups, threshold_param, sub_idx, model_idx,
                 records, family_rates, model_rates>>

\* the head of the loop over the families: the family has a name
RatesFamily ==
  /\ pc = "rates_family"
  /\ fam_idx <= Len(model_families)
  /\ ~model_family_name(model_families[fam_idx]).raised
  /\ family_rates' = <<>>
  /\ model_idx' = 1
  /\ pc' = "rates_model"
  /\ UNCHANGED <<metricVars, eerVars, nameVars, diffVars, famVars, subgroups, threshold_param, sub_idx,
                 records, subgroup_record, model_rates>>

\* the head of the loop over the families: model_family_name raises
RatesFamilyRaise ==
  /\ pc = "rates_family"
  /\ fam_idx <= Len(model_families)
  /\ model_family_name(model_families[fam_idx]).raised
  /\ error' = model_family_name(model_families[fam_idx]).error
  /\ pc' = "rates_raised"
  /\ UNCHANGED <<metricVars, eerVars, nameVars, diffVars, model_families, include_asegs, fam_idx,
                 metric_idx, family_table, output, rateVars>>

\* one model of the family: its threshold_param, the assert, its confusion rates
RatesModel ==
  /\ pc = "rates_model"
  /\ model_idx <= Len(model_families[fam_idx])
  /\ LET res == ModelRates(SubgroupSubset(df, subgroups[sub_idx]), threshold_param,
                           model_families[fam_idx][model_idx])
     IN /\ ~res.raised
        /\ model_rates' = Some(res)
        /\ family_rates' = Append(family_rates, res.value)
  /\ model_idx' = model_idx + 1
  /\ UNCHANGED <<metricVars, pc, eerVars, nameVars, diffVars, famVars, subgroups, threshold_param, sub_idx,
                 records, subgroup_record>>

\* one model of the family raises: no entry in the threshold_param dict, the assert
\* fails, or compute_confusion_rates divides by zero
RatesModelRaise ==
  /\ pc = "rates_model"
  /\ model_idx <= Len(model_families[fam_idx])
  /\ LET res == ModelRates(SubgroupSubset(df, subgroups[sub_idx]), threshold_param,
                           model_families[fam_idx][model_idx])
     IN /\ res.raised
        /\ error' = res.error
        /\ model_rates' = IF CheckedThreshold(threshold_param,
                                model_families[fam_idx][model_idx]).raised
                          THEN model_rates ELSE Some(res)
  /\ pc' = "rates_raised"
  /\ UNCHANGED <<metricVars, eerVars, nameVars, diffVars, model_families, include_asegs, fam_idx,
                 metric_idx, family_table, output, subgroups, threshold_param, sub_idx,
                 model_idx, records, subgroup_record, family_rates>>

\* the models of the family are done: the record takes the family's values
RatesFamilyDone ==
  /\ pc = "rates_model"
  /\ model_idx > Len(model_families[fam_idx])
  /\ subgroup_record' = UpdateRecord(subgroup_record,
                                     model_family_name(model_families[fam_idx]).value,
                                     family_rates)
  /\ fam_idx' = fam_idx + 1
  /\ pc' = "rates_family"
  /\ UNCHANGED <<metricVars, eerVars, nameVars, diffVars, model_families, include_asegs, metric_idx,
                 family_table, output, error, subgroups, threshold_param, sub_idx, model_idx,
                 records, family_rates, model_rates>>

\* the families are done: records.append(subgroup_record)
RatesSubgroupDone ==
  /\ pc = "rates_family"
  /\ fam_idx > Len(model_families)
  /\ records' = Append(records, subgroup_record)
  /\ sub_idx' = sub_idx + 1
  /\ pc' = "rates_loop"
  /\ UNCHANGED <<metricVars, eerVars, nameVars, diffVars, famVars, subgroups, threshold_param, model_idx,
                 subgroup_record, family_rates, model_rates>>

\* return pd.DataFrame(records)
RatesReturn ==
  /\ pc = "rates_loop"
  /\ sub_idx > Len(subgroups)
  /\ pc' = "rates_done"
  /\ UNCHANGED <<metricVars, eerVars, nameVars, diffVars, famVars, rateVars>>

NextRates ==
  RatesSubgroup \/ RatesFamily \/ RatesFamilyRaise \/ RatesModel \/ RatesModelRaise
    \/ RatesFamilyDone \/ RatesSubgroupDone \/ RatesReturn

SpecRates == InitRates /\ [][NextRates]_vars

(***************************************************************************)
(* Properties of the negative rates                                        *)
(***************************************************************************)
\* the subset and the model of the compute_confusion_rates call made last
LastSubset == SubgroupSubset(df, subgroups[sub_idx])

LastCallModel ==
  model_families[fam_idx][IF pc = "rates_raised" THEN model_idx ELSE model_idx - 1]

\* a denominator of the rates is zero for the rows and the model at the threshold_param
\* the call was given
ZeroDenominator(frame, score_col, thr) ==
  LET at_or_above == {i \in DOMAIN frame :
                        frame[i].score[score_col] * thr.den >= thr.num * ScoreDen}
  IN \/ \A i \in DOMAIN frame : ~frame[i].label
     \/ \A i \in DOMAIN frame : frame[i].label
     \/ at_or_above = {}

\* C8: compute_confusion_rates does not crash on a zero denominator: with no
\* actual positives, no actual negatives or no predicted positives it returns a
\* result (with a not-a-number sentinel), it does not raise.
C8_NoCrashOnZeroDenominator ==
  (/\ pc \in {"rates_model", "rates_raised"}
   /\ model_rates # None
   /\ ~CheckedThreshold(threshold_param, LastCallModel).raised
   /\ ZeroDenominator(LastSubset, LastCallModel,
                      CheckedThreshold(threshold_param, LastCallModel).value)) =>
    ~model_rates[1].raised

\* the threshold_param parameter is valid for the families: a float, or a dict with a
\* float for every model of every family
ValidThreshold ==
  \A f \in DOMAIN model_families : \A k \in DOMAIN model_families[f] :
    ~CheckedThreshold(threshold_param, model_families[f][k]).raised

\* every family has a name
FamiliesNamed ==
  \A f \in DOMAIN model_families : ~model_family_name(model_families[f]).raised

RatesEnded == pc \in {"rates_done", "rates_raised"}

\* C9: per_subgroup_negative_rates is not aborted by a bad subgroup: for valid
\* families and thresholds it returns a table with one record per listed subgroup,
\* in list order.
C9_OneRecordPerSubgroup ==
  (RatesEnded /\ ValidThreshold /\ FamiliesNamed) =>
    /\ pc = "rates_done"
    /\ Len(records) = Len(subgroups)
    /\ \A i \in DOMAIN records : records[i][SUBGROUP] = subgroups[i]

\* the threshold_param parameter is invalid: a scalar that is no float, or a dict that
\* lacks a model of a supplied family or maps one to a value that is no float
InvalidThreshold ==
  \/ ~threshold_param.is_dict /\ ~IsFloat(threshold_param.scalar)
  \/ /\ threshold_param.is_dict
     /\ \E f \in DOMAIN model_families : \E k \in DOMAIN model_families[f] :
          \/ model_families[f][k] \notin DOMAIN threshold_param.map
          \/ ~IsFloat(threshold_param.map[model_families[f][k]])

\* C10 as stated: with an invalid threshold_param parameter the call fails for every
\* list of subgroups and of model families.
C10_InvalidThresholdRejected ==
  (RatesEnded /\ InvalidThreshold) => pc = "rates_raised"

\* C10 amended: with an invalid threshold_param parameter the call fails whenever at
\* least one subgroup and at least one model family are supplied.
C10_InvalidThresholdRejectedWhenReached ==
  (RatesEnded /\ InvalidThreshold /\ subgroups # <<>> /\ model_families # <<>>) =>
    /\ pc = "rates_raised"
    /\ records = <<>>

\* the int 1 is rejected by the assert, on a subset that has rows of both labels
\* and a score above the threshold_param
C10_Witness ==
  /\ pc = "rates_raised"
  /\ error = "AssertionError"
  /\ threshold_param = Scalar(PyInt(1))
  /\ model_families = <<Family_a1>>
  /\ \E i, j \in DOMAIN LastSubset :
       /\ LastSubset[i].label
       /\ ~LastSubset[j].label
       /\ LastSubset[i].score[Str_a_1] = 100

\* a dict without an entry for a model of the second family is rejected
C10_WitnessMissingEntry ==
  /\ pc = "rates_raised"
  /\ error = "KeyError"
  /\ threshold_param.is_dict
  /\ fam_idx = 2

\* the call returns a table of two records: every rate is defined
C9_WitnessReturns ==
  /\ pc = "rates_done"
  /\ Len(records) = 2
  /\ model_families = <<Family_a12>>

(***************************************************************************)
(* Rank-statistic engine: normalized_mwu and the average equality gaps     *)
(***************************************************************************)
\* the most rows drawn for the data frame of the equality gaps
MaxGapRows == 4

\* the model column and the subgroup column of the equality gap specifications
GapModel == <<"m">>
GapSubgroup == "s1"

\* the scores drawn: 0.1, 0.5 and 0.9
GapScores == {10, 50, 90}

\* the rows of the data frame: a label, a score, the subgroup flag
GapRows ==
  [label : BOOLEAN, score : [{GapModel} -> GapScores], sub : [{GapSubgroup} -> BOOLEAN]]

\* data[model_name], as a list
ScoreColumn(data, model_name) == [i \in DOMAIN data |-> data[i].score[model_name]]

\* a mutation of RankTimes2: tied values all get the lowest rank of their group
RankMinTimes2(a, i) == 2 * Cardinality({j \in DOMAIN a : a[j] < a[i]}) + 2

\* twice rankdata(a)[i]: tied values get the average of the ranks they span, so
\* the rank is (number of smaller values) + (number of equal values + 1) / 2
RankTimes2(a, i) ==
  2 * Cardinality({j \in DOMAIN a : a[j] < a[i]})
    + Cardinality({j \in DOMAIN a : a[j] = a[i]}) + 1

\* the statistic of stats.mannwhitneyu(x, y, alternative='less'), a rational:
\* the rank sum of x in the concatenation of x and y, minus n1 (n1 + 1) / 2
mannwhitneyu(x, y) ==
  LET n1 == Len(x)
      ranked == x \o y
      rankx == [i \in 1..n1 |-> RankTimes2(ranked, i)]
  IN [num |-> Sum(rankx) - n1 * (n1 + 1), den |-> 2]

\* normalized_mwu(data1, data2, model_name)
normalized_mwu(d1, d2, model_name) ==
  LET scores_1 == ScoreColumn(d1, model_name)
      scores_2 == ScoreColumn(d2, model_name)
      n1 == Len(scores_1)
      n2 == Len(scores_2)
      u == mannwhitneyu(scores_1, scores_2)
  IN IF n1 = 0 \/ n2 = 0 THEN None
     ELSE Some([num |-> u.num, den |-> u.den * (n1 * n2)])

\* 0.5 - mwu
HalfMinus(r) == [num |-> r.den - 2 * r.num, den |-> 2 * r.den]

\* df[~df[subgroup] & ~df[label]] and the three other masks of the gaps
BackgroundNegative(frame, subgroup_col) ==
  SelectSeq(frame, LAMBDA r : ~r.sub[subgroup_col] /\ ~r.label)

SubgroupNegative(frame, subgroup_col) ==
  SelectSeq(frame, LAMBDA r : r.sub[subgroup_col] /\ ~r.label)

BackgroundPositive(frame, subgroup_col) ==
  SelectSeq(frame, LAMBDA r : ~r.sub[subgroup_col] /\ r.label)

SubgroupPositive(frame, subgroup_col) ==
  SelectSeq(frame, LAMBDA r : r.sub[subgroup_col] /\ r.label)

\* a mutation of compute_negative_aeg: the two sides are exchanged
compute_negative_aeg_swapped(frame, subgroup_col, model_name) ==
  LET rank_statistic == normalized_mwu(SubgroupNegative(frame, subgroup_col),
                                       BackgroundNegative(frame, subgroup_col), model_name)
  IN IF rank_statistic = None THEN None ELSE Some(HalfMinus(rank_statistic[1]))

\* compute_negative_aeg(df, subgroup, label, model_name)
compute_negative_aeg(frame, subgroup_col, model_name) ==
  LET rank_statistic == normalized_mwu(BackgroundNegative(frame, subgroup_col),
                                       SubgroupNegative(frame, subgroup_col), model_name)
  IN IF rank_statistic = None THEN None ELSE Some(HalfMinus(rank_statistic[1]))

\* compute_positive_aeg(df, subgroup, label, model_name)
compute_positive_aeg(frame, subgroup_col, model_name) ==
  LET rank_statistic == normalized_mwu(BackgroundPositive(frame, subgroup_col),
                                       SubgroupPositive(frame, subgroup_col), model_name)
  IN IF rank_statistic = None THEN None ELSE Some(HalfMinus(rank_statistic[1]))

\* the locals of compute_equal_error_rate while another entry point reads df
EerLocalsIdle ==
  /\ num_thresholds = 0
  /\ idx = 1
  /\ confusion_matrix = None
  /\ min_threshold = None
  /\ min_confusion_matrix = None
  /\ min_diff = Inf
  /\ scanned = {}

\* a data frame is drawn; normalized_mwu is handed the rows outside the subgroup
\* and the rows inside it, whatever their labels
InitGap ==
  /\ pc = "gap_mwu"
  /\ NameIdle
  /\ FamIdle
  /\ DiffIdle
  /\ RateIdle
  /\ EerLocalsIdle
  /\ RocIdle
  /\ df \in SeqsUpTo(GapRows, MaxGapRows)
  /\ data1 = SelectSeq(df, LAMBDA r : ~r.sub[GapSubgroup])
  /\ data2 = SelectSeq(df, LAMBDA r : r.sub[GapSubgroup])
  /\ mwu_forward = None
  /\ mwu_backward = None
  /\ negative_aeg = None
  /\ positive_aeg = None

\* normalized_mwu(data1, data2, model_name)
MwuForward ==
  /\ pc = "gap_mwu"
  /\ mwu_forward' = Returned(normalized_mwu(data1, data2, GapModel))
  /\ pc' = "gap_mwu_swapped"
  /\ UNCHANGED <<eerVars, nameVars, famVars, diffVars, rateVars, rocVars, data1, data2,
                 mwu_backward, negative_aeg, positive_aeg>>

\* normalized_mwu(data2, data1, model_name)
MwuBackward ==
  /\ pc = "gap_mwu_swapped"
  /\ mwu_backward' = Returned(normalized_mwu(data2, data1, GapModel))
  /\ pc' = "gap_negative_aeg"
  /\ UNCHANGED <<eerVars, nameVars, famVars, diffVars, rateVars, rocVars, data1, data2,
                 mwu_forward, negative_aeg, positive_aeg>>

\* record[column_name(model, NEGATIVE_AEG)] = compute_negative_aeg(...)
NegativeAeg ==
  /\ pc = "gap_negative_aeg"
  /\ negative_aeg' = Returned(compute_negative_aeg(df, GapSubgroup, GapModel))
  /\ pc' = "gap_positive_aeg"
  /\ UNCHANGED <<eerVars, nameVars, famVars, diffVars, rateVars, rocVars, data1, data2,
                 mwu_forward, mwu_backward, positive_aeg>>

\* record[column_name(model, POSITIVE_AEG)] = compute_positive_aeg(...)
PositiveAeg ==
  /\ pc = "gap_positive_aeg"
  /\ positive_aeg' = Returned(compute_positive_aeg(df, GapSubgroup, GapModel))
  /\ pc' = "gap_done"
  /\ UNCHANGED <<eerVars, nameVars, famVars, diffVars, rateVars, rocVars, data1, data2,
                 mwu_forward, mwu_backward, negative_aeg>>

NextGap == MwuForward \/ MwuBackward \/ NegativeAeg \/ PositiveAeg

SpecGap == InitGap /\ [][NextGap]_vars

(***************************************************************************)
(* ROC engine: positive_rates and the average squared equality gap         *)
(***************************************************************************)
\* the most rows drawn for the data frame of the squared gap
MaxRocRows == 4

\* num of np.linspace(1.0, 0.0, num=1000)
AsegNumThresholds == 1000

\* np.linspace(1.0, 0.0, num=1000): 1, 998/999, ..., 1/999, 0
AsegThresholds ==
  [i \in 1..AsegNumThresholds |->
     [num |-> AsegNumThresholds - i, den |-> AsegNumThresholds - 1]]

\* a mutation of positive_rates: the first test reads tp instead of tp + fn
positive_rates_tp(frame, score_col, thresholds) ==
  LET confusion == [i \in DOMAIN thresholds |->
                      confusion_matrix_counts(frame, score_col, thresholds[i])]
  IN IF \E i \in DOMAIN thresholds :
          \/ confusion[i].tp = 0
          \/ confusion[i].fp + confusion[i].tn = 0
     THEN <<None, None>>
     ELSE <<Some([i \in DOMAIN thresholds |->
                    [num |-> confusion[i].fp, den |-> confusion[i].fp + confusion[i].tn]]),
            Some([i \in DOMAIN thresholds |->
                    [num |-> confusion[i].tp, den |-> confusion[i].tp + confusion[i].fn]])>>

\* positive_rates(df, score_col, label_col, thresholds): the pair (fpr, tpr).  The
\* loop returns (None, None) at the first threshold with an empty class, so the
\* lists are returned when no threshold has one.
positive_rates(frame, score_col, thresholds) ==
  LET confusion == [i \in DOMAIN thresholds |->
                      confusion_matrix_counts(frame, score_col, thresholds[i])]
  IN IF \E i \in DOMAIN thresholds :
          \/ confusion[i].tp + confusion[i].fn = 0
          \/ confusion[i].fp + confusion[i].tn = 0
     THEN <<None, None>>
     ELSE <<Some([i \in DOMAIN thresholds |->
                    [num |-> confusion[i].fp, den |-> confusion[i].fp + confusion[i].tn]]),
            Some([i \in DOMAIN thresholds |->
                    [num |-> confusion[i].tp, den |-> confusion[i].tp + confusion[i].fn]])>>

\* the sum of f[lo], ..., f[hi]
RECURSIVE SumRange(_, _, _)
SumRange(f, lo, hi) ==
  IF lo > hi THEN 0
  ELSE IF lo = hi THEN f[lo]
  ELSE LET mid == (lo + hi) \div 2 IN SumRange(f, lo, mid) + SumRange(f, mid + 1, hi)

\* squared_diff_integral(y, x) = np.trapz(np.square(np.subtract(y, x)), x), the
\* sum of (x[i+1] - x[i]) * (sq[i+1] + sq[i]) / 2.  The rates of one list share
\* their denominator (the size of a class of the subset), so the sum is taken
\* over the numerators.
squared_diff_integral(y, x) ==
  LET dy == y[1].den
      dx == x[1].den
      sq == [i \in DOMAIN x |-> (y[i].num * dx - x[i].num * dy) * (y[i].num * dx - x[i].num * dy)]
      terms == [i \in 1..(Len(x) - 1) |-> (x[i + 1].num - x[i].num) * (sq[i + 1] + sq[i])]
  IN [num |-> SumRange(terms, 1, Len(x) - 1), den |-> 2 * dx * (dx * dy) * (dx * dy)]

\* the truth value of a list or None in `if s_fpr and s_tpr and b_fpr and b_tpr`
Truthy(list) == list # None /\ list[1] # <<>>

\* compute_average_squared_equality_gap(df, subgroup, label, model_name)
compute_average_squared_equality_gap(frame, subgroup_col, model_name) ==
  LET subgroup_df == SelectSeq(frame, LAMBDA r : r.sub[subgroup_col])
      background_df == SelectSeq(frame, LAMBDA r : ~r.sub[subgroup_col])
      s == positive_rates(subgroup_df, model_name, AsegThresholds)
      b == positive_rates(background_df, model_name, AsegThresholds)
  IN IF subgroup_df = <<>> \/ background_df = <<>> THEN <<None, None>>
     ELSE IF Truthy(s[1]) /\ Truthy(s[2]) /\ Truthy(b[1]) /\ Truthy(b[2])
          THEN <<Some(squared_diff_integral(s[2][1], b[2][1])),
                 Some(squared_diff_integral(s[1][1], b[1][1]))>>
          ELSE <<None, None>>

\* the kinds of rows drawn: a label, a score of 0.2 or 0.8, the subgroup flag
RocRowKinds ==
  <<[label |-> FALSE, score |-> [m \in {GapModel} |-> 20], sub |-> [s \in {GapSubgroup} |-> FALSE]],
    [label |-> FALSE, score |-> [m \in {GapModel} |-> 80], sub |-> [s \in {GapSubgroup} |-> FALSE]],
    [label |-> TRUE, score |-> [m \in {GapModel} |-> 20], sub |-> [s \in {GapSubgroup} |-> FALSE]],
    [label |-> TRUE, score |-> [m \in {GapModel} |-> 80], sub |-> [s \in {GapSubgroup} |-> FALSE]],
    [label |-> FALSE, score |-> [m \in {GapModel} |-> 20], sub |-> [s \in {GapSubgroup} |-> TRUE]],
    [label |-> FALSE, score |-> [m \in {GapModel} |-> 80], sub |-> [s \in {GapSubgroup} |-> TRUE]],
    [label |-> TRUE, score |-> [m \in {GapModel} |-> 20], sub |-> [s \in {GapSubgroup} |-> TRUE]],
    [label |-> TRUE, score |-> [m \in {GapModel} |-> 80], sub |-> [s \in {GapSubgroup} |-> TRUE]]>>

\* the data frames drawn: up to MaxRocRows rows, listed kind by kind (the order
\* of the rows changes no count)
RocFrames ==
  {[i \in DOMAIN k |-> RocRowKinds[k[i]]] :
     k \in {c \in SeqsUpTo(DOMAIN RocRowKinds, MaxRocRows) :
              \A i \in DOMAIN c : i = 1 \/ c[i - 1] <= c[i]}}

\* the threshold lists drawn for positive_rates: none, one threshold inside the
\* scores, thresholds around all scores, the grid 1, 0.5, 0
RocThresholdLists ==
  {<<>>,
   <<[num |-> 1, den |-> 2]>>,
   <<[num |-> 2, den |-> 1], [num |-> -1, den |-> 1]>>,
   <<[num |-> 1, den |-> 1], [num |-> 1, den |-> 2], [num |-> 0, den |-> 1]>>}

InitRoc ==
  /\ pc = "roc_aseg"
  /\ NameIdle
  /\ FamIdle
  /\ DiffIdle
  /\ RateIdle
  /\ EerLocalsIdle
  /\ GapIdle
  /\ df \in RocFrames
  /\ roc_thresholds = <<>>
  /\ roc_rates = None
  /\ aseg = None

\* record[POSITIVE_ASEG], record[NEGATIVE_ASEG] =
\* compute_average_squared_equality_gap(dataset, subgroup, label_col, model)
AsegCall ==
  /\ pc = "roc_aseg"
  /\ aseg' = Returned(compute_average_squared_equality_gap(df, GapSubgroup, GapModel))
  /\ pc' = "roc_rates"
  /\ UNCHANGED <<eerVars, nameVars, famVars, diffVars, rateVars, gapVars, roc_thresholds,
                 roc_rates>>

\* positive_rates(df, score_col, label_col, thresholds) for a list of thresholds
PositiveRatesCall ==
  /\ pc = "roc_rates"
  /\ \E thresholds \in RocThresholdLists :
       /\ roc_thresholds' = thresholds
       /\ roc_rates' = Returned(positive_rates(df, GapModel, thresholds))
  /\ pc' = "roc_done"
  /\ UNCHANGED <<eerVars, nameVars, famVars, diffVars, rateVars, gapVars, aseg>>

NextRoc == AsegCall \/ PositiveRatesCall

SpecRoc == InitRoc /\ [][NextRoc]_vars

(***************************************************************************)
(* Properties of the rank statistic and the equality gaps                  *)
(***************************************************************************)
\* a rational in [0, 1]
InUnitInterval(r) == r.den > 0 /\ 0 <= r.num /\ r.num <= r.den

\* equality of two rationals
SameRational(a, b) == a.num * b.den = b.num * a.den

\* no score of data1 equals a score of data2
NoSharedScore ==
  \A i \in DOMAIN data1 : \A j \in DOMAIN data2 :
    data1[i].score[GapModel] # data2[j].score[GapModel]

\* C11: for non-empty data1 and data2, normalized_mwu(data1, data2, model) lies in
\* [0, 1] and equals 1 - normalized_mwu(data2, data1, model); the equality is
\* exact when no score of data1 equals a score of data2 (and also when some do).
C11_RangeAndSymmetry ==
  (mwu_backward # None /\ data1 # <<>> /\ data2 # <<>>) =>
    /\ mwu_forward.value # None
    /\ mwu_backward.value # None
    /\ InUnitInterval(mwu_forward.value[1])
    /\ InUnitInterval(mwu_backward.value[1])
    /\ NoSharedScore => SameRational(mwu_forward.value[1], OneMinus(mwu_backward.value[1]))
    /\ SameRational(mwu_forward.value[1], OneMinus(mwu_backward.value[1]))

\* both calls returned for subsets of one and two rows that share no score, with
\* a statistic strictly inside the interval
C11_Witness ==
  /\ mwu_backward # None
  /\ Len(data1) + Len(data2) >= 3
  /\ data1 # <<>>
  /\ data2 # <<>>
  /\ NoSharedScore
  /\ mwu_forward.value[1].num > 0
  /\ mwu_forward.value[1].num < mwu_forward.value[1].den

\* both calls returned for subsets that share a score and differ in another
C11_WitnessTies ==
  /\ mwu_backward # None
  /\ data1 # <<>>
  /\ data2 # <<>>
  /\ ~NoSharedScore
  /\ ~SameRational(mwu_forward.value[1], mwu_backward.value[1])

\* twice the number of pairs (b, s) with b's score above s's, plus the number of
\* pairs with equal scores
PairsAboveTimes2(background, subset) ==
  2 * Cardinality({p \in (DOMAIN background) \X (DOMAIN subset) :
                     background[p[1]].score[GapModel] > subset[p[2]].score[GapModel]})
    + Cardinality({p \in (DOMAIN background) \X (DOMAIN subset) :
                     background[p[1]].score[GapModel] = subset[p[2]].score[GapModel]})

\* the two sides hold the same scores the same number of times
SameScoreMultiset(background, subset) ==
  \A v \in GapScores :
    Cardinality({i \in DOMAIN background : background[i].score[GapModel] = v})
      = Cardinality({i \in DOMAIN subset : subset[i].score[GapModel] = v})

\* what C12 says of one gap: None exactly when a side is empty, and otherwise
\* 0.5 minus the share of pairs the background wins (ties count half), a value
\* in [-0.5, 0.5] that is 0 when the sides hold the same score multiset
GapAsClaimed(gap, background, subset) ==
  /\ gap = None <=> (background = <<>> \/ subset = <<>>)
  /\ gap # None =>
       LET n == Len(background) * Len(subset)
       IN /\ SameRational(gap[1], [num |-> n - PairsAboveTimes2(background, subset),
                                   den |-> 2 * n])
          /\ gap[1].den > 0
          /\ -gap[1].den <= 2 * gap[1].num
          /\ 2 * gap[1].num <= gap[1].den
          /\ SameScoreMultiset(background, subset) => gap[1].num = 0

\* C12: compute_negative_aeg and compute_positive_aeg return None exactly when
\* the background side or the subgroup side of their label is empty, and
\* otherwise 0.5 - normalized_mwu(background side, subgroup side), a value in
\* [-0.5, 0.5] that is 0 when the two sides have identical score multisets.
C12_GapValue ==
  pc = "gap_done" =>
    /\ GapAsClaimed(negative_aeg.value, BackgroundNegative(df, GapSubgroup),
                    SubgroupNegative(df, GapSubgroup))
    /\ GapAsClaimed(positive_aeg.value, BackgroundPositive(df, GapSubgroup),
                    SubgroupPositive(df, GapSubgroup))

\* the negative gap is a number other than 0 and the positive gap is None
C12_Witness ==
  /\ pc = "gap_done"
  /\ negative_aeg.value # None
  /\ negative_aeg.value[1].num # 0
  /\ Len(SubgroupNegative(df, GapSubgroup)) = 2
  /\ positive_aeg.value = None

\* the two negative sides hold the same two different scores: the gap is 0
C12_WitnessSameScores ==
  /\ pc = "gap_done"
  /\ negative_aeg.value # None
  /\ negative_aeg.value[1].num = 0
  /\ Len(BackgroundNegative(df, GapSubgroup)) = 2
  /\ SameScoreMultiset(BackgroundNegative(df, GapSubgroup), SubgroupNegative(df, GapSubgroup))
  /\ \E i, j \in DOMAIN df : df[i].score[GapModel] # df[j].score[GapModel]

(***************************************************************************)
(* Properties of positive_rates and the squared gap                        *)
(***************************************************************************)
\* the frame has no positive-labelled row or no negative-labelled row
EmptyOrSingleClass(frame) ==
  \/ \A i \in DOMAIN frame : frame[i].label
  \/ \A i \in DOMAIN frame : ~frame[i].label

\* the rows of df inside and outside the subgroup
SubgroupRows == SelectSeq(df, LAMBDA r : r.sub[GapSubgroup])
BackgroundRows == SelectSeq(df, LAMBDA r : ~r.sub[GapSubgroup])

\* C13: positive_rates is all-or-nothing: for a non-empty threshold list it
\* returns (None, None) exactly when the frame has no positive-labelled row or no
\* negative-labelled row, and otherwise an FPR list and a TPR list with one entry
\* per threshold, every entry in [0, 1]; and the squared gap is (None, None)
\* whenever the subgroup rows or the background rows are empty or of one class.
C13_AllOrNothing ==
  /\ (roc_rates # None /\ roc_thresholds # <<>>) =>
       LET fpr == roc_rates.value[1]
           tpr == roc_rates.value[2]
       IN /\ (fpr = None /\ tpr = None) <=> EmptyOrSingleClass(df)
          /\ fpr = None <=> tpr = None
          /\ fpr # None =>
               /\ Len(fpr[1]) = Len(roc_thresholds)
               /\ Len(tpr[1]) = Len(roc_thresholds)
               /\ \A i \in DOMAIN roc_thresholds :
                    InUnitInterval(fpr[1][i]) /\ InUnitInterval(tpr[1][i])
  /\ (aseg # None /\ (EmptyOrSingleClass(SubgroupRows) \/ EmptyOrSingleClass(BackgroundRows)))
       => aseg.value = <<None, None>>

\* positive_rates returned two lists of three rates, one of them strictly inside
\* the interval, for a frame whose subgroup rows are all positive: the squared
\* gap of the frame is (None, None)
C13_Witness ==
  /\ roc_rates # None
  /\ Len(roc_thresholds) = 3
  /\ roc_rates.value[1] # None
  /\ \E i \in DOMAIN roc_thresholds :
       /\ roc_rates.value[2][1][i].num > 0
       /\ roc_rates.value[2][1][i].num < roc_rates.value[2][1][i].den
  /\ SubgroupRows # <<>>
  /\ \A i \in DOMAIN SubgroupRows : SubgroupRows[i].label
  /\ ~EmptyOrSingleClass(BackgroundRows)
  /\ aseg.value = <<None, None>>

\* positive_rates returned (None, None) for a frame of negative rows only
C13_WitnessNone ==
  /\ roc_rates # None
  /\ Len(roc_thresholds) = 3
  /\ df # <<>>
  /\ roc_rates.value = <<None, None>>

\* the squared gap is a pair of numbers, the first of them above 0
C13_WitnessGap ==
  /\ aseg # None
  /\ aseg.value[1] # None
  /\ aseg.value[2] # None
  /\ aseg.value[1][1].num > 0

(***************************************************************************)
(* Properties of the threshold scan                                        *)
(***************************************************************************)
\* the threshold of the iteration that ran last
LastThreshold == Linspace(num_thresholds, CHOOSE i \in scanned : \A j \in scanned : j <= i)

\* the cell of the confusion matrix a row belongs to at a threshold
Cell(row, threshold) ==
  IF row.score[EerModel] * threshold.den >= threshold.num * ScoreDen
  THEN IF row.label THEN "tp" ELSE "fp"
  ELSE IF row.label THEN "fn" ELSE "tn"

RowsInCell(c, threshold) == Cardinality({i \in DOMAIN df : Cell(df[i], threshold) = c})

\* a <= b on thresholds
ThresholdLeq(a, b) == a.num * b.den <= b.num * a.den

\* the matrix of the i-th threshold of the grid
GridMatrix(i) == confusion_matrix_counts(df, EerModel, Linspace(num_thresholds, i))

\* C1: the four counts confusion_matrix_counts returns add up to the number of
\* rows, each row being counted in exactly the cell its score (>= threshold or
\* not) and its label select.
C1_CountsPartitionRows ==
  confusion_matrix # None =>
    LET cm == confusion_matrix[1]
        t == LastThreshold
    IN /\ cm.tp + cm.tn + cm.fp + cm.fn = Len(df)
       /\ cm.tp = RowsInCell("tp", t)
       /\ cm.tn = RowsInCell("tn", t)
       /\ cm.fp = RowsInCell("fp", t)
       /\ cm.fn = RowsInCell("fn", t)

\* a matrix computed at a threshold that a negative row's score equals, with
\* rows in three different cells
C1_Witness ==
  /\ confusion_matrix # None
  /\ Len(df) = 3
  /\ \E i \in DOMAIN df : /\ ~df[i].label
                          /\ LastThreshold.num > 0
                          /\ df[i].score[EerModel] * LastThreshold.den
                               = LastThreshold.num * ScoreDen
  /\ confusion_matrix[1].fp > 0
  /\ confusion_matrix[1].tn > 0
  /\ confusion_matrix[1].fn > 0

\* C2: on scores [0.1, 0.4, 0.6, 0.9] with labels [False, False, True, True] and
\* 101 thresholds the returned threshold t has 0.4 < t <= 0.6 and its matrix has
\* fp = fn = 0; and on every input, when some threshold of the grid has fn = fp,
\* the returned matrix has fn = fp.
C2_EqualErrorFound ==
  pc = "eer_done" =>
    /\ (df = ExampleDf /\ num_thresholds = DefaultNumThresholds) =>
          /\ EerResult.threshold # None
          /\ EerResult.confusion_matrix # None
          /\ 40 * EerResult.threshold[1].den < EerResult.threshold[1].num * ScoreDen
          /\ EerResult.threshold[1].num * ScoreDen <= 60 * EerResult.threshold[1].den
          /\ EerResult.confusion_matrix[1].fp = 0
          /\ EerResult.confusion_matrix[1].fn = 0
    /\ (\E i \in 1..num_thresholds : GridMatrix(i).fn = GridMatrix(i).fp) =>
          /\ EerResult.confusion_matrix # None
          /\ EerResult.confusion_matrix[1].fn = EerResult.confusion_matrix[1].fp

\* the example data set has been scanned to the end
C2_Witness ==
  /\ pc = "eer_done"
  /\ df = ExampleDf
  /\ num_thresholds = DefaultNumThresholds
  /\ EerResult.confusion_matrix[1].fp = 0

\* a second witness of C2: an equal point with fn = fp > 0 behind the start
C2_WitnessGeneral ==
  /\ pc = "eer_done"
  /\ df # ExampleDf
  /\ EerResult.confusion_matrix # None
  /\ EerResult.confusion_matrix[1].fn = EerResult.confusion_matrix[1].fp
  /\ EerResult.confusion_matrix[1].fn > 0
  /\ GridMatrix(1).fn # GridMatrix(1).fp

\* C3 as stated: the returned threshold is the lowest scanned threshold that
\* attains the returned minimal difference.
C3_LowestOnTies ==
  (pc = "eer_done" /\ min_threshold # None) =>
    \A i \in scanned :
      Difference(GridMatrix(i)) = min_diff.val =>
        ThresholdLeq(min_threshold[1], Linspace(num_thresholds, i))

\* C3 amended: the returned threshold is the highest scanned threshold that
\* attains the returned minimal difference (the scan keeps a tie: <=).
C3_HighestOnTies ==
  (pc = "eer_done" /\ min_threshold # None) =>
    /\ \E i \in scanned : /\ Linspace(num_thresholds, i) = min_threshold[1]
                           /\ Difference(GridMatrix(i)) = min_diff.val
    /\ \A i \in scanned :
         Difference(GridMatrix(i)) = min_diff.val =>
           ThresholdLeq(Linspace(num_thresholds, i), min_threshold[1])

\* a finished scan in which two scanned thresholds tie on the minimum
C3_Witness ==
  /\ pc = "eer_done"
  /\ min_threshold # None
  /\ Len(df) >= 2
  /\ min_diff.val < Difference(GridMatrix(1))
  /\ \E i, j \in scanned : /\ i < j
                            /\ Difference(GridMatrix(i)) = min_diff.val
                            /\ Difference(GridMatrix(j)) = min_diff.val

\* C14: the early exit skips no better operating point: for num_thresholds >= 1
\* the returned confusion matrix attains the minimum of |fn - fp| over all
\* num_thresholds evenly spaced thresholds, the result of an exhaustive scan.
C14_EarlyExitKeepsMinimum ==
  (pc = "eer_done" /\ num_thresholds >= 1) =>
    /\ EerResult.confusion_matrix # None
    /\ \E i \in 1..num_thresholds :
         Difference(EerResult.confusion_matrix[1]) = Difference(GridMatrix(i))
    /\ \A i \in 1..num_thresholds :
         Difference(EerResult.confusion_matrix[1]) <= Difference(GridMatrix(i))

\* a scan that left through the break with thresholds of the grid unscanned,
\* after the difference had first gone down
C14_Witness ==
  /\ pc = "eer_done"
  /\ df # ExampleDf
  /\ \E i \in 1..num_thresholds : i \notin scanned
  /\ Cardinality(scanned) >= 3
  /\ min_diff.val < Difference(GridMatrix(1))

\* C15: after every iteration min_threshold is one of the thresholds scanned,
\* min_confusion_matrix is confusion_matrix_counts of the input at min_threshold
\* and min_diff is |fn - fp| of that matrix; so for num_thresholds >= 1 the
\* returned threshold is not None and the returned matrix belongs to it.
C15_LoopInvariant ==
  /\ scanned # {} =>
       /\ min_threshold # None
       /\ \E i \in scanned : min_threshold[1] = Linspace(num_thresholds, i)
       /\ min_confusion_matrix
            = Some(confusion_matrix_counts(df, EerModel, min_threshold[1]))
       /\ min_diff = Fin(Difference(min_confusion_matrix[1]))
  /\ (pc = "eer_done" /\ num_thresholds >= 1) =>
       /\ scanned # {}
       /\ EerResult.threshold # None
       /\ EerResult.confusion_matrix
            = Some(confusion_matrix_counts(df, EerModel, EerResult.threshold[1]))

\* in the middle of a scan, after an iteration that replaced the minimum kept by
\* an earlier one with a matrix that differs from it
C15_Witness ==
  /\ pc = "eer_loop"
  /\ Cardinality(scanned) >= 2
  /\ min_threshold # None
  /\ min_threshold[1].num > 0
  /\ min_confusion_matrix # Some(GridMatrix(1))
  /\ idx <= num_thresholds

\* a call with one threshold returned the threshold 0.0 and its matrix
C15_WitnessOneThreshold ==
  /\ pc = "eer_done"
  /\ num_thresholds = 1
  /\ Len(df) = 3
  /\ EerResult.threshold = Some([num |-> 0, den |-> 1])

====
